---- MODULE Spec2Model ----
(***************************************************************************)
(* Order management: the create / update / delete order workflows of       *)
(* crud.py, run by concurrent requests against                             *)
(*   - the relational ledger (products, orders, order_products),           *)
(*   - the redis key store holding the lock_product_<id> keys,             *)
(*   - the meilisearch "orders" index (the projection).                    *)
(*                                                                         *)
(* Ledger semantics assumed of the store behind SQLAlchemy (InnoDB):       *)
(*   - a commit applies the session's pending writes atomically;           *)
(*   - SELECT ... FOR UPDATE reads the latest committed row and keeps the  *)
(*     row locked until the session's next commit or rollback;             *)
(*   - a plain SELECT reads from the snapshot taken by the transaction's   *)
(*     first plain read, or (weaker isolation) the latest committed row;   *)
(*   - an UPDATE flushed at commit writes the value computed in Python,    *)
(*     whatever the row holds by then.                                     *)
(* Prices and amounts are integers (the code's floats, on exact values).   *)
(***************************************************************************)
EXTENDS Integers, Sequences, FiniteSets, TLC

-----------------------------------------------------------------------------
(* Bounds of the model *)

\* initial stock of a product ranges over 0..MaxStock
MaxStock == 2
\* a requested line quantity ranges over 1..MaxQty
MaxQty == 2
\* number of workflows (requests) started in one behaviour
MaxOps == 2
\* number of lines of a request
MaxLines == 2

\* the catalog: product ids present in the products table
Products == {1, 2}
\* a product id no row of the products table has: the first one past the catalog
MissingProduct == Cardinality(Products) + 1
ProductIds == Products \cup {MissingProduct}
\* price column of the products table
Price(p) == 10 * p

\* concurrently running request handlers
Workflows == {1, 2}
\* the handler running the requests of the sequential scenarios
SeqWorkflow == CHOOSE w \in Workflows : \A v \in Workflows : w <= v

\* name and description of the requests
Texts == {[name |-> "O1", description |-> "d1"], [name |-> "O2", description |-> "d2"]}

-----------------------------------------------------------------------------
(* Values *)

EmptyMap == [x \in {} |-> 0]
NoDoc == [name |-> "", description |-> "", total_amount |-> 0, products |-> <<>>]
NoReq == [name |-> "", description |-> "", products |-> <<>>]
NoOrder == [name |-> "", description |-> "", total_amount |-> 0]

\* schemas.OrderProductBase
OrderProductBase == [product_id : ProductIds, quantity : 1..MaxQty]

Line(p, q) == [product_id |-> p, quantity |-> q]

RECURSIVE SumSeq(_)
SumSeq(s) == IF s = <<>> THEN 0 ELSE Head(s) + SumSeq(Tail(s))

\* the quantities of the lines of `ls` that reference product p, added up
QtyOf(ls, p) ==
    SumSeq([k \in 1..Len(SelectSeq(ls, LAMBDA l : l.product_id = p)) |->
              SelectSeq(ls, LAMBDA l : l.product_id = p)[k].quantity])

ProductsOf(ls) == {ls[k].product_id : k \in 1..Len(ls)}

NoDuplicates(ls) == \A j, k \in 1..Len(ls) : j # k => ls[j].product_id # ls[k].product_id

Range(s) == {s[k] : k \in 1..Len(s)}

Front(s) == SubSeq(s, 1, Len(s) - 1)

\* key order of a Python dict built from the lines: first occurrence of each id
RECURSIVE KeyOrder(_)
KeyOrder(ls) ==
    IF ls = <<>> THEN <<>>
    ELSE LET rest == KeyOrder(Front(ls))
             p == ls[Len(ls)].product_id
         IN  IF p \in Range(rest) THEN rest ELSE Append(rest, p)

\* {line.product_id: line.quantity for line in ls}: a later line overwrites
ProductsMap(ls) ==
    [p \in ProductsOf(ls) |->
        ls[CHOOSE k \in 1..Len(ls) :
               /\ ls[k].product_id = p
               /\ \A j \in 1..Len(ls) : ls[j].product_id = p => j <= k].quantity]

\* dict.get(p, 0)
Get(m, p) == IF p \in DOMAIN m THEN m[p] ELSE 0

-----------------------------------------------------------------------------
(* State *)

VARIABLES
    stock,           \* products.stock, committed
    orders,          \* orders table, committed: id -> [name, description, total_amount]
    order_products,  \* order_products table, committed, in primary-key order
    next_id,         \* next auto-increment id of the orders table
    rowlock,         \* product row -> workflow holding it FOR UPDATE, or 0
    redis,           \* lock_product_<p>: "absent", "set" (no TTL), "ttl"
    index,           \* meilisearch orders index: id -> document
    wf,              \* per request handler: position and local variables
    flags,           \* per handler, since its request started: what it did
    started,         \* requests started so far
    provisioned,     \* the stock each product was provisioned with
    before           \* sequential scenarios: what the running request started from

vars == <<stock, orders, order_products, next_id, rowlock, redis, index, wf,
          flags, started, provisioned, before>>

\* what the ledger and the projection persist
Persisted == <<stock, orders, order_products, index>>

Idle ==
    [op |-> "none", pc |-> "idle", result |-> "none", req |-> NoReq,
     order_id |-> 0, existing_order |-> NoOrder, i |-> 0,
     product_updates |-> <<>>, total_amount |-> 0,
     existing_products_map |-> EmptyMap, new_products_map |-> EmptyMap,
     stock_changes |-> <<>>, lines |-> <<>>,
     loaded |-> EmptyMap, snap |-> EmptyMap, doc |-> NoDoc]

NoFlags == [mutated |-> FALSE, claimed |-> FALSE, holds |-> {}]
NoBefore == [req |-> NoReq, stock |-> EmptyMap, lines |-> <<>>, row |-> NoOrder,
             created |-> 0]

\* the handler has returned or raised: only the outcome is kept
Done(op, res, oid) ==
    [Idle EXCEPT !.op = op, !.pc = "done", !.result = res, !.order_id = oid]

\* the handler has raised on item k of its loop
Raised(op, res, oid, k) == [Done(op, res, oid) EXCEPT !.i = k]

Free(w) == wf[w].pc \in {"idle", "done"}

\* Order.products of order `oid`, as the relationship loads it
LinesOf(oid) ==
    LET rows == SelectSeq(order_products, LAMBDA r : r.order_id = oid)
    IN  [k \in 1..Len(rows) |-> Line(rows[k].product_id, rows[k].quantity)]

Rows(oid, ls) ==
    [k \in 1..Len(ls) |->
        [order_id |-> oid, product_id |-> ls[k].product_id, quantity |-> ls[k].quantity]]

\* sum over the lines of product.price * quantity
Amount(ls) == SumSeq([k \in 1..Len(ls) |-> Price(ls[k].product_id) * ls[k].quantity])

\* the session ends its transaction: every row it holds FOR UPDATE is released
ReleaseRows(w) == [p \in Products |-> IF rowlock[p] = w THEN 0 ELSE rowlock[p]]

\* (mutation: a row another session holds FOR UPDATE does not block)
RowFree_always(w, p) == TRUE

\* the row of product p can be read FOR UPDATE, or written, by w
RowFree(w, p) == IF p \in Products THEN rowlock[p] \in {0, w} ELSE TRUE

\* the product whose lock_key the loop of handler w is working on
LoopProduct(w) ==
    IF wf[w].op = "create" THEN wf[w].req.products[wf[w].i].product_id
    ELSE IF wf[w].op = "update" THEN wf[w].stock_changes[wf[w].i].product_id
    ELSE wf[w].lines[wf[w].i].product_id

\* handler w is inside the try block of its loop: its step leaves through `finally`
InTry(w) == wf[w].pc \in {"c_check", "u_check", "d_restock"}

\* bookkeeping of what handler w has done since its request started:
\*   mutated: it changed the ledger or the projection;
\*   claimed: one of its setnx calls set a key;
\*   holds:   the products whose key it has set by its own setnx and not yet
\*            deleted by its own delete
Track(w) ==
    LET was == IF Free(w) THEN NoFlags ELSE flags[w]
        set == {p \in ProductIds : redis[p] = "absent" /\ redis'[p] = "set"}
        deleted == IF InTry(w) /\ redis'[LoopProduct(w)] = "absent"
                   THEN {LoopProduct(w)} ELSE {}
    IN  flags' = [flags EXCEPT ![w] =
            [mutated |-> was.mutated \/ Persisted' # Persisted,
             claimed |-> was.claimed \/ set # {},
             holds |-> (was.holds \cup set) \ deleted]]

TypeOK ==
    /\ stock \in [Products -> Int]
    /\ rowlock \in [Products -> Workflows \cup {0}]
    /\ redis \in [ProductIds -> {"absent", "set", "ttl"}]
    /\ next_id \in 1..(MaxOps + 2)
    /\ started \in 0..MaxOps
    /\ DOMAIN orders \subseteq 1..(MaxOps + 1)
    /\ DOMAIN index \subseteq 1..(MaxOps + 1)
    /\ \A k \in 1..Len(order_products) : order_products[k].quantity > 0
    /\ \A w \in Workflows : wf[w].op \in {"none", "create", "update", "delete"}

\* the state after start-up: the catalog provisioned, no order yet
Init ==
    /\ stock \in [Products -> 0..MaxStock]
    /\ orders = EmptyMap
    /\ order_products = <<>>
    /\ next_id = 1
    /\ rowlock = [p \in Products |-> 0]
    /\ redis = [p \in ProductIds |-> "absent"]
    /\ index = EmptyMap
    /\ wf = [w \in Workflows |-> Idle]
    /\ flags = [w \in Workflows |-> NoFlags]
    /\ started = 0
    /\ provisioned = stock
    /\ before = NoBefore

-----------------------------------------------------------------------------
(* The redis lock protocol, as each workflow's loop uses it *)

\* while not redis_client.setnx(lock_key, 1): time.sleep(0.1)
\* the handler leaves the loop only by the call that sets the absent key
SetNX(p) ==
    /\ redis[p] = "absent"
    /\ redis' = [redis EXCEPT ![p] = "set"]

\* redis_client.expire(lock_key, 5): gives the key a TTL, if the key is there
ExpireKey(p) ==
    redis' = [redis EXCEPT ![p] = IF @ = "absent" THEN "absent" ELSE "ttl"]

\* (mutation: the key is not deleted)
DeleteKey_keeps(p) == redis

\* redis_client.delete(lock_key): removes the key, whoever set it
DeleteKey(p) == [redis EXCEPT ![p] = "absent"]

\* the store drops a key whose TTL has run out
KeyExpires(p) ==
    /\ redis[p] = "ttl"
    /\ redis' = [redis EXCEPT ![p] = "absent"]
    /\ UNCHANGED <<stock, orders, order_products, next_id, rowlock, index, wf,
                   flags, started, provisioned, before>>

-----------------------------------------------------------------------------
(* crud_create_order *)

\* lines 33-36: the request arrives
create_begin(w, r) ==
    /\ Free(w)
    /\ started < MaxOps
    /\ started' = started + 1
    /\ wf' = [wf EXCEPT ![w] =
                [Idle EXCEPT !.op = "create", !.req = r, !.i = 1,
                             !.pc = IF r.products = <<>> THEN "c_commit_order"
                                    ELSE "c_setnx"]]
    /\ UNCHANGED <<stock, orders, order_products, next_id, rowlock, redis, index,
                   provisioned>>
    /\ Track(w)

\* lines 38-40
c_setnx(w) ==
    /\ wf[w].pc = "c_setnx"
    /\ SetNX(wf[w].req.products[wf[w].i].product_id)
    /\ wf' = [wf EXCEPT ![w].pc = "c_expire"]
    /\ UNCHANGED <<stock, orders, order_products, next_id, rowlock, index, started,
                   provisioned, before>>
    /\ Track(w)

\* line 41
c_expire(w) ==
    /\ wf[w].pc = "c_expire"
    /\ ExpireKey(wf[w].req.products[wf[w].i].product_id)
    /\ wf' = [wf EXCEPT ![w].pc = "c_check"]
    /\ UNCHANGED <<stock, orders, order_products, next_id, rowlock, index, started,
                   provisioned, before>>
    /\ Track(w)

\* (mutation: the stock check is missing)
CreateRejects_never(available, quantity) == FALSE

\* line 47: the stock check of one requested line
CreateRejects(available, quantity) == available < quantity

\* (mutation: the stock is decremented, and persisted, as each line passes)
c_check_reserves(w) ==
    LET item == wf[w].req.products[wf[w].i]
        p == item.product_id
        last == wf[w].i = Len(wf[w].req.products)
    IN  /\ wf[w].pc = "c_check"
        /\ RowFree(w, p)
        /\ redis' = DeleteKey(p)
        /\ IF p \notin Products
           THEN /\ wf' = [wf EXCEPT ![w] = Raised("create", "ProductNotFound", 0, wf[w].i)]
                /\ rowlock' = ReleaseRows(w)
                /\ UNCHANGED stock
           ELSE IF CreateRejects(stock[p], item.quantity)
           THEN /\ wf' = [wf EXCEPT ![w] = Raised("create", "InsufficientStock", 0, wf[w].i)]
                /\ rowlock' = ReleaseRows(w)
                /\ UNCHANGED stock
           ELSE /\ wf' = [wf EXCEPT
                    ![w].product_updates = Append(@, item),
                    ![w].total_amount = @ + Price(p) * item.quantity,
                    ![w].i = @ + 1,
                    ![w].pc = IF last THEN "c_commit_order" ELSE "c_setnx"]
                /\ rowlock' = [rowlock EXCEPT ![p] = w]
                /\ stock' = [stock EXCEPT ![p] = @ - item.quantity]
        /\ UNCHANGED <<orders, order_products, next_id, index, started,
                       provisioned, before>>
        /\ Track(w)

\* lines 43-53: read the product FOR UPDATE, check it, release the redis key.
\* A raise leaves through `finally`; the session is then closed (rolled back).
c_check(w) ==
    LET item == wf[w].req.products[wf[w].i]
        p == item.product_id
        last == wf[w].i = Len(wf[w].req.products)
    IN  /\ wf[w].pc = "c_check"
        /\ RowFree(w, p)
        /\ redis' = DeleteKey(p)
        /\ IF p \notin Products
           THEN /\ wf' = [wf EXCEPT ![w] = Raised("create", "ProductNotFound", 0, wf[w].i)]
                /\ rowlock' = ReleaseRows(w)
           ELSE IF CreateRejects(stock[p], item.quantity)
           THEN /\ wf' = [wf EXCEPT ![w] = Raised("create", "InsufficientStock", 0, wf[w].i)]
                /\ rowlock' = ReleaseRows(w)
           ELSE /\ wf' = [wf EXCEPT
                    ![w].product_updates = Append(@, item),
                    ![w].total_amount = @ + Price(p) * item.quantity,
                    ![w].i = @ + 1,
                    ![w].pc = IF last THEN "c_commit_order" ELSE "c_setnx"]
                /\ rowlock' = [rowlock EXCEPT ![p] = w]
        /\ UNCHANGED <<stock, orders, order_products, next_id, index, started,
                       provisioned, before>>
        /\ Track(w)

\* lines 55-57: the order row is inserted and committed; the commit ends the
\* transaction that held the product rows
c_commit_order(w) ==
    /\ wf[w].pc = "c_commit_order"
    /\ orders' = [id \in DOMAIN orders \cup {next_id} |->
                    IF id = next_id
                    THEN [name |-> wf[w].req.name,
                          description |-> wf[w].req.description,
                          total_amount |-> wf[w].total_amount]
                    ELSE orders[id]]
    /\ next_id' = next_id + 1
    /\ rowlock' = ReleaseRows(w)
    /\ wf' = [wf EXCEPT ![w].order_id = next_id, ![w].pc = "c_refresh"]
    /\ UNCHANGED <<stock, order_products, redis, index, started, provisioned,
                   before>>
    /\ Track(w)

\* line 58: db.refresh(new_order), the first read of the next transaction
c_refresh(w) ==
    /\ wf[w].pc = "c_refresh"
    /\ IF wf[w].order_id \in DOMAIN orders
       THEN wf' = [wf EXCEPT ![w].snap = stock, ![w].pc = "c_apply"]
       ELSE wf' = [wf EXCEPT ![w] = Done("create", "DbError", wf[w].order_id)]
    /\ UNCHANGED <<stock, orders, order_products, next_id, rowlock, redis, index,
                   started, provisioned, before>>
    /\ Track(w)

\* lines 60-61: product.stock -= quantity for every (product, quantity) kept,
\* on the stock the expired product reloads
Decremented(base, updates) ==
    [p \in ProductsOf(updates) |-> base[p] - QtyOf(updates, p)]

\* lines 60-65: decrement the stocks, insert the lines, commit
c_apply(w) ==
    LET updates == wf[w].product_updates
        newstock == Decremented(wf[w].snap, updates)
    IN  /\ wf[w].pc = "c_apply"
        /\ \A p \in ProductsOf(updates) : RowFree(w, p)
        /\ IF updates # <<>> /\ wf[w].order_id \notin DOMAIN orders
           THEN \* the order row is gone: the insert of its lines fails
                /\ wf' = [wf EXCEPT ![w] = Done("create", "DbError", wf[w].order_id)]
                /\ UNCHANGED <<stock, order_products>>
           ELSE /\ stock' = [p \in Products |->
                                IF p \in DOMAIN newstock THEN newstock[p] ELSE stock[p]]
                /\ order_products' = order_products \o Rows(wf[w].order_id, updates)
                /\ wf' = [wf EXCEPT ![w].pc = "c_reload"]
        /\ UNCHANGED <<orders, next_id, rowlock, redis, index, started, provisioned,
                       before>>
        /\ Track(w)

\* index_order_in_meilisearch, lines 276-294: the document built from the order
Document(oid) ==
    [name |-> orders[oid].name,
     description |-> orders[oid].description,
     total_amount |-> orders[oid].total_amount,
     products |-> LinesOf(oid)]

\* line 66 and lines 276-294: the order and its lines are read back
c_reload(w) ==
    /\ wf[w].pc = "c_reload"
    /\ IF wf[w].order_id \in DOMAIN orders
       THEN wf' = [wf EXCEPT ![w].doc = Document(wf[w].order_id), ![w].pc = "c_index"]
       ELSE wf' = [wf EXCEPT ![w] = Done("create", "DbError", wf[w].order_id)]
    /\ UNCHANGED <<stock, orders, order_products, next_id, rowlock, redis, index,
                   started, provisioned, before>>
    /\ Track(w)

\* orders_index.add_documents(order_data): adds or replaces the document
AddDocument(oid, doc) ==
    [id \in DOMAIN index \cup {oid} |-> IF id = oid THEN doc ELSE index[id]]

\* lines 68-70, line 296
c_index(w) ==
    /\ wf[w].pc = "c_index"
    /\ index' = AddDocument(wf[w].order_id, wf[w].doc)
    /\ wf' = [wf EXCEPT ![w] = Done("create", "ok", wf[w].order_id)]
    /\ UNCHANGED <<stock, orders, order_products, next_id, rowlock, redis,
                   started, provisioned, before>>
    /\ Track(w)

-----------------------------------------------------------------------------
(* crud_update_order *)

\* (mutation: every product of the new lines counts as new to the order)
StockChanges_readds(existing, new, existing_keys, new_keys) ==
    LET changed == SelectSeq(existing_keys, LAMBDA p : Get(new, p) # existing[p])
    IN  [k \in 1..Len(changed) |->
            [product_id |-> changed[k],
             change |-> IF Get(new, changed[k]) < existing[changed[k]]
                        THEN existing[changed[k]] - Get(new, changed[k])
                        ELSE Get(new, changed[k]) - existing[changed[k]]]]
        \o
        [k \in 1..Len(new_keys) |-> [product_id |-> new_keys[k], change |-> new[new_keys[k]]]]

\* lines 86-101: the dict stock_changes, as the sequence of its items.
\* First the products of the old order whose quantity changes (the change is
\* the magnitude of the difference), then the products new to the order.
StockChanges(existing, new, existing_keys, new_keys) ==
    LET changed == SelectSeq(existing_keys, LAMBDA p : Get(new, p) # existing[p])
        added   == SelectSeq(new_keys, LAMBDA p : p \notin DOMAIN existing)
    IN  [k \in 1..Len(changed) |->
            [product_id |-> changed[k],
             change |-> IF Get(new, changed[k]) < existing[changed[k]]
                        THEN existing[changed[k]] - Get(new, changed[k])
                        ELSE Get(new, changed[k]) - existing[changed[k]]]]
        \o
        [k \in 1..Len(added) |-> [product_id |-> added[k], change |-> new[added[k]]]]

\* lines 73-101: load the order and its lines, build the two maps and the changes
update_begin(w, oid, r) ==
    LET old == LinesOf(oid)
        existing == ProductsMap(old)
        new == ProductsMap(r.products)
        changes == StockChanges(existing, new, KeyOrder(old), KeyOrder(r.products))
    IN  /\ Free(w)
        /\ started < MaxOps
        /\ started' = started + 1
        /\ IF oid \notin DOMAIN orders
           THEN wf' = [wf EXCEPT ![w] = Done("update", "OrderNotFound", oid)]
           ELSE wf' = [wf EXCEPT ![w] =
                         [Idle EXCEPT !.op = "update", !.req = r, !.order_id = oid,
                                      !.existing_order = orders[oid],
                                      !.i = 1, !.snap = stock,
                                      !.existing_products_map = existing,
                                      !.new_products_map = new,
                                      !.stock_changes = changes,
                                      !.pc = IF changes = <<>> THEN "u_apply"
                                             ELSE "u_setnx"]]
        /\ UNCHANGED <<stock, orders, order_products, next_id, rowlock, redis, index,
                       provisioned>>
        /\ Track(w)

\* lines 105-107
u_setnx(w) ==
    /\ wf[w].pc = "u_setnx"
    /\ SetNX(wf[w].stock_changes[wf[w].i].product_id)
    /\ wf' = [wf EXCEPT ![w].pc = "u_expire"]
    /\ UNCHANGED <<stock, orders, order_products, next_id, rowlock, index, started,
                   provisioned, before>>
    /\ Track(w)

\* line 108
u_expire(w) ==
    /\ wf[w].pc = "u_expire"
    /\ ExpireKey(wf[w].stock_changes[wf[w].i].product_id)
    /\ wf' = [wf EXCEPT ![w].pc = "u_check"]
    /\ UNCHANGED <<stock, orders, order_products, next_id, rowlock, index, started,
                   provisioned, before>>
    /\ Track(w)

\* line 115: the stock check of one entry of stock_changes
UpdateRejects(available, change) == change > 0 /\ available < change

\* (mutation: each change is applied, and persisted, as it passes the check)
u_check_applies(w) ==
    LET entry == wf[w].stock_changes[wf[w].i]
        p == entry.product_id
        last == wf[w].i = Len(wf[w].stock_changes)
    IN  /\ wf[w].pc = "u_check"
        /\ RowFree(w, p)
        /\ redis' = DeleteKey(p)
        /\ IF p \notin Products
           THEN /\ wf' = [wf EXCEPT ![w] =
                            Raised("update", "ProductNotFound", wf[w].order_id, wf[w].i)]
                /\ rowlock' = ReleaseRows(w)
                /\ UNCHANGED stock
           ELSE IF UpdateRejects(stock[p], entry.change)
           THEN /\ wf' = [wf EXCEPT ![w] =
                            Raised("update", "InsufficientStock", wf[w].order_id, wf[w].i)]
                /\ rowlock' = ReleaseRows(w)
                /\ UNCHANGED stock
           ELSE /\ wf' = [wf EXCEPT
                    ![w].loaded = [q \in DOMAIN @ \cup {p} |-> IF q = p THEN stock[p] ELSE @[q]],
                    ![w].i = @ + 1,
                    ![w].pc = IF last THEN "u_apply" ELSE "u_setnx"]
                /\ rowlock' = [rowlock EXCEPT ![p] = w]
                /\ stock' = [stock EXCEPT ![p] = @ - entry.change]
        /\ UNCHANGED <<orders, order_products, next_id, index, started,
                       provisioned, before>>
        /\ Track(w)

\* lines 110-119
u_check(w) ==
    LET entry == wf[w].stock_changes[wf[w].i]
        p == entry.product_id
        last == wf[w].i = Len(wf[w].stock_changes)
    IN  /\ wf[w].pc = "u_check"
        /\ RowFree(w, p)
        /\ redis' = DeleteKey(p)
        /\ IF p \notin Products
           THEN /\ wf' = [wf EXCEPT ![w] =
                            Raised("update", "ProductNotFound", wf[w].order_id, wf[w].i)]
                /\ rowlock' = ReleaseRows(w)
           ELSE IF UpdateRejects(stock[p], entry.change)
           THEN /\ wf' = [wf EXCEPT ![w] =
                            Raised("update", "InsufficientStock", wf[w].order_id, wf[w].i)]
                /\ rowlock' = ReleaseRows(w)
           ELSE /\ wf' = [wf EXCEPT
                    ![w].loaded = [q \in DOMAIN @ \cup {p} |-> IF q = p THEN stock[p] ELSE @[q]],
                    ![w].i = @ + 1,
                    ![w].pc = IF last THEN "u_apply" ELSE "u_setnx"]
                /\ rowlock' = [rowlock EXCEPT ![p] = w]
        /\ UNCHANGED <<stock, orders, order_products, next_id, index, started,
                       provisioned, before>>
        /\ Track(w)

\* line 124: the branch that restocks
Restocks(existing, new, p) == p \in DOMAIN existing /\ Get(new, p) < existing[p]

\* lines 122-129: the stock each product of stock_changes is set to
Applied(base, existing, new, changes) ==
    [p \in {changes[k].product_id : k \in 1..Len(changes)} |->
        LET change == (CHOOSE e \in Range(changes) : e.product_id = p).change
        IN  IF Restocks(existing, new, p) THEN base[p] + change ELSE base[p] - change]

\* lines 142-147: the UPDATE of the order row sets the columns whose value
\* differs from the one loaded at line 76; the others keep what the row holds
Flushed(was, name, description, total, row) ==
    [name |-> IF name # was.name THEN name ELSE row.name,
     description |-> IF description # was.description THEN description
                     ELSE row.description,
     total_amount |-> IF total # was.total_amount THEN total ELSE row.total_amount]

\* lines 122-147: apply the changes, replace the lines, update the order, commit.
\* Line 123 reads the product again without a lock: the session still holds
\* the row read FOR UPDATE, or reloads it from the transaction's snapshot.
u_apply(w) ==
    LET oid == wf[w].order_id
        r == wf[w].req
        changes == wf[w].stock_changes
        keys == {changes[k].product_id : k \in 1..Len(changes)}
        total == Amount(r.products)
        gone == oid \notin DOMAIN orders
        was == wf[w].existing_order
        \* the flush writes nothing of the order: no column changes, no line is added
        untouched == /\ r.products = <<>>
                     /\ was = [name |-> r.name, description |-> r.description,
                               total_amount |-> total]
    IN  /\ wf[w].pc = "u_apply"
        /\ \E base \in [keys -> {wf[w].loaded[p] : p \in keys}
                                  \cup {wf[w].snap[p] : p \in keys}] :
            /\ \A p \in keys : base[p] \in {wf[w].loaded[p], wf[w].snap[p]}
            /\ IF gone /\ ~untouched
               THEN \* the UPDATE of the order row, or the insert of a line, fails
                    /\ UNCHANGED <<stock, orders, order_products>>
                    /\ wf' = [wf EXCEPT ![w] = Done("update", "DbError", oid)]
               ELSE LET newstock == Applied(base, wf[w].existing_products_map,
                                            wf[w].new_products_map, changes)
                    IN  /\ stock' = [p \in Products |->
                                IF p \in DOMAIN newstock THEN newstock[p] ELSE stock[p]]
                        /\ order_products' =
                             SelectSeq(order_products, LAMBDA x : x.order_id # oid)
                             \o Rows(oid, r.products)
                        /\ orders' = IF gone THEN orders
                                     ELSE [orders EXCEPT ![oid] =
                                            Flushed(was, r.name, r.description, total, @)]
                        /\ wf' = [wf EXCEPT ![w].pc = "u_reload"]
        /\ rowlock' = ReleaseRows(w)
        /\ UNCHANGED <<next_id, redis, index, started, provisioned, before>>
        /\ Track(w)

\* line 148 and lines 276-294
u_reload(w) ==
    /\ wf[w].pc = "u_reload"
    /\ IF wf[w].order_id \in DOMAIN orders
       THEN wf' = [wf EXCEPT ![w].doc = Document(wf[w].order_id), ![w].pc = "u_index"]
       ELSE wf' = [wf EXCEPT ![w] = Done("update", "DbError", wf[w].order_id)]
    /\ UNCHANGED <<stock, orders, order_products, next_id, rowlock, redis, index,
                   started, provisioned, before>>
    /\ Track(w)

\* lines 151-153, line 296
u_index(w) ==
    /\ wf[w].pc = "u_index"
    /\ index' = AddDocument(wf[w].order_id, wf[w].doc)
    /\ wf' = [wf EXCEPT ![w] = Done("update", "ok", wf[w].order_id)]
    /\ UNCHANGED <<stock, orders, order_products, next_id, rowlock, redis,
                   started, provisioned, before>>
    /\ Track(w)

-----------------------------------------------------------------------------
(* crud_delete_order *)

\* lines 156-163: load the order and its lines
delete_begin(w, oid) ==
    /\ Free(w)
    /\ started < MaxOps
    /\ started' = started + 1
    /\ IF oid \notin DOMAIN orders
       THEN wf' = [wf EXCEPT ![w] = Done("delete", "OrderNotFound", oid)]
       ELSE wf' = [wf EXCEPT ![w] =
                     [Idle EXCEPT !.op = "delete", !.order_id = oid, !.i = 1,
                                  !.lines = LinesOf(oid),
                                  !.pc = IF LinesOf(oid) = <<>> THEN "d_commit"
                                         ELSE "d_setnx"]]
    /\ UNCHANGED <<stock, orders, order_products, next_id, rowlock, redis, index,
                   provisioned>>
    /\ Track(w)

\* lines 164-167
d_setnx(w) ==
    /\ wf[w].pc = "d_setnx"
    /\ SetNX(wf[w].lines[wf[w].i].product_id)
    /\ wf' = [wf EXCEPT ![w].pc = "d_expire"]
    /\ UNCHANGED <<stock, orders, order_products, next_id, rowlock, index, started,
                   provisioned, before>>
    /\ Track(w)

\* line 168
d_expire(w) ==
    /\ wf[w].pc = "d_expire"
    /\ ExpireKey(wf[w].lines[wf[w].i].product_id)
    /\ wf' = [wf EXCEPT ![w].pc = "d_restock"]
    /\ UNCHANGED <<stock, orders, order_products, next_id, rowlock, index, started,
                   provisioned, before>>
    /\ Track(w)

\* (mutation: the quantity is not added back)
Restocked_forgets(available, quantity) == available

\* line 174: product.stock += order_product.quantity
Restocked(available, quantity) == available + quantity

\* lines 170-176: read the product FOR UPDATE, add the line's quantity back
d_restock(w) ==
    LET line == wf[w].lines[wf[w].i]
        p == line.product_id
        last == wf[w].i = Len(wf[w].lines)
        have == IF p \in DOMAIN wf[w].loaded THEN wf[w].loaded[p] ELSE stock[p]
    IN  /\ wf[w].pc = "d_restock"
        /\ RowFree(w, p)
        /\ redis' = DeleteKey(p)
        /\ wf' = [wf EXCEPT
              ![w].loaded = [q \in DOMAIN @ \cup {p} |->
                                IF q = p THEN Restocked(have, line.quantity) ELSE @[q]],
              ![w].i = @ + 1,
              ![w].pc = IF last THEN "d_commit" ELSE "d_setnx"]
        /\ rowlock' = [rowlock EXCEPT ![p] = w]
        /\ UNCHANGED <<stock, orders, order_products, next_id, index, started,
                       provisioned, before>>
        /\ Track(w)

\* lines 178-183: delete the lines and the order row, commit
d_commit(w) ==
    LET oid == wf[w].order_id
    IN  /\ wf[w].pc = "d_commit"
        /\ stock' = [p \in Products |->
                        IF p \in DOMAIN wf[w].loaded THEN wf[w].loaded[p] ELSE stock[p]]
        /\ order_products' = SelectSeq(order_products, LAMBDA x : x.order_id # oid)
        /\ orders' = [id \in DOMAIN orders \ {oid} |-> orders[id]]
        /\ rowlock' = ReleaseRows(w)
        /\ wf' = [wf EXCEPT ![w].pc = "d_unindex"]
        /\ UNCHANGED <<next_id, redis, index, started, provisioned, before>>
        /\ Track(w)

\* lines 185-188: orders_index.delete_document(str(order_id))
d_unindex(w) ==
    /\ wf[w].pc = "d_unindex"
    /\ index' = [id \in DOMAIN index \ {wf[w].order_id} |-> index[id]]
    /\ wf' = [wf EXCEPT ![w] = Done("delete", "ok", wf[w].order_id)]
    /\ UNCHANGED <<stock, orders, order_products, next_id, rowlock, redis,
                   started, provisioned, before>>
    /\ Track(w)

-----------------------------------------------------------------------------
(* A wait for a product row another session holds ends in a database error
   (lock wait timeout, deadlock victim): the statement raises, `finally`
   deletes the redis key, the session is rolled back. *)

WaitsForRow(w) ==
    \/ /\ wf[w].pc = "c_check"
       /\ ~RowFree(w, wf[w].req.products[wf[w].i].product_id)
    \/ /\ wf[w].pc = "u_check"
       /\ ~RowFree(w, wf[w].stock_changes[wf[w].i].product_id)
    \/ /\ wf[w].pc = "d_restock"
       /\ ~RowFree(w, wf[w].lines[wf[w].i].product_id)

LockedProduct(w) ==
    IF wf[w].pc = "c_check" THEN wf[w].req.products[wf[w].i].product_id
    ELSE IF wf[w].pc = "u_check" THEN wf[w].stock_changes[wf[w].i].product_id
    ELSE wf[w].lines[wf[w].i].product_id

db_wait_fails(w) ==
    /\ WaitsForRow(w)
    /\ redis' = DeleteKey(LockedProduct(w))
    /\ rowlock' = ReleaseRows(w)
    /\ wf' = [wf EXCEPT ![w] = Done(wf[w].op, "DbError", wf[w].order_id)]
    /\ UNCHANGED <<stock, orders, order_products, next_id, index, started,
                   provisioned, before>>
    /\ Track(w)

\* the commit of line 65 waits for a product row another session holds
db_commit_fails(w) ==
    /\ wf[w].pc = "c_apply"
    /\ \E p \in ProductsOf(wf[w].product_updates) : ~RowFree(w, p)
    /\ wf' = [wf EXCEPT ![w] = Done("create", "DbError", wf[w].order_id)]
    /\ UNCHANGED <<stock, orders, order_products, next_id, rowlock, redis, index,
                   started, provisioned, before>>
    /\ Track(w)

-----------------------------------------------------------------------------
(* Requests *)

LineLists(n) == UNION {[1..k -> OrderProductBase] : k \in 0..n}

\* schemas.OrderCreate / OrderUpdate: the request bodies of the scenarios
Requests(n) ==
    {[name |-> t.name, description |-> t.description, products |-> ls] :
        t \in Texts, ls \in LineLists(n)}

OrderIds == 1..MaxOps

\* the requests of the concurrent scenarios: every line a different product,
\* one unit of each
ConcurrentRequests ==
    {r \in Requests(MaxLines) :
        /\ NoDuplicates(r.products)
        /\ \A k \in 1..Len(r.products) : r.products[k].quantity = 1}

\* the handlers are interchangeable: a request goes to the first free one
Takes(w) == \A v \in Workflows : v < w => ~Free(v)

\* the requests of the sequential scenarios
SequentialRequests == Requests(MaxLines)

-----------------------------------------------------------------------------
(* Concurrent requests: POST /orders, PUT /orders/{id}, DELETE /orders/{id} *)

create_order(w, r) == Takes(w) /\ create_begin(w, r) /\ UNCHANGED before

update_order(w, oid, r) == Takes(w) /\ update_begin(w, oid, r) /\ UNCHANGED before

delete_order(w, oid) == Takes(w) /\ delete_begin(w, oid) /\ UNCHANGED before

Next ==
    \/ \E w \in Workflows, r \in ConcurrentRequests : create_order(w, r)
    \/ \E w \in Workflows, oid \in OrderIds, r \in ConcurrentRequests :
          update_order(w, oid, r)
    \/ \E w \in Workflows, oid \in OrderIds : delete_order(w, oid)
    \/ \E w \in Workflows :
          \/ c_setnx(w) \/ c_expire(w) \/ c_check(w) \/ c_commit_order(w)
          \/ c_refresh(w) \/ c_apply(w) \/ c_reload(w) \/ c_index(w)
          \/ u_setnx(w) \/ u_expire(w) \/ u_check(w) \/ u_apply(w)
          \/ u_reload(w) \/ u_index(w)
          \/ d_setnx(w) \/ d_expire(w) \/ d_restock(w) \/ d_commit(w)
          \/ d_unindex(w)
          \/ db_wait_fails(w) \/ db_commit_fails(w)
    \/ \E p \in ProductIds : KeyExpires(p)

Spec == Init /\ [][Next]_vars

-----------------------------------------------------------------------------
(* Concurrent requests on a ledger that already holds an order: the state a
   create of one unit of every product of the catalog has left *)

FirstOrder == [name |-> "O1", description |-> "d1",
               products |-> <<Line(1, 1), Line(2, 1)>>]

InitLive ==
    /\ stock \in [Products -> 0..MaxStock]
    /\ provisioned = [p \in Products |-> stock[p] + QtyOf(FirstOrder.products, p)]
    /\ orders = [id \in {1} |->
                   [name |-> FirstOrder.name, description |-> FirstOrder.description,
                    total_amount |-> Amount(FirstOrder.products)]]
    /\ order_products = Rows(1, FirstOrder.products)
    /\ next_id = 2
    /\ rowlock = [p \in Products |-> 0]
    /\ redis = [p \in ProductIds |-> "absent"]
    /\ index = [id \in {1} |->
                  [name |-> FirstOrder.name, description |-> FirstOrder.description,
                   total_amount |-> Amount(FirstOrder.products),
                   products |-> FirstOrder.products]]
    /\ wf = [w \in Workflows |-> Idle]
    /\ flags = [w \in Workflows |-> NoFlags]
    /\ started = 0
    /\ before = NoBefore

\* PUT and DELETE requests only
NextLive ==
    \/ \E w \in Workflows, oid \in OrderIds, r \in ConcurrentRequests :
          update_order(w, oid, r)
    \/ \E w \in Workflows, oid \in OrderIds : delete_order(w, oid)
    \/ \E w \in Workflows :
          \/ u_setnx(w) \/ u_expire(w) \/ u_check(w) \/ u_apply(w)
          \/ u_reload(w) \/ u_index(w)
          \/ d_setnx(w) \/ d_expire(w) \/ d_restock(w) \/ d_commit(w)
          \/ d_unindex(w)
          \/ db_wait_fails(w)
    \/ \E p \in ProductIds : KeyExpires(p)

SpecLive == InitLive /\ [][NextLive]_vars

-----------------------------------------------------------------------------
(* Sequential requests: one handler, each request finished before the next *)

seq_create_order(r) ==
    /\ create_begin(SeqWorkflow, r)
    /\ before' = [NoBefore EXCEPT !.req = r, !.stock = stock]

seq_update_order(oid, r) ==
    /\ update_begin(SeqWorkflow, oid, r)
    /\ before' = [NoBefore EXCEPT
                    !.req = r, !.stock = stock, !.lines = LinesOf(oid),
                    !.row = IF oid \in DOMAIN orders THEN orders[oid] ELSE NoOrder]

\* a delete right after the successful create of the same order keeps the
\* stock that create started from
seq_delete_order(oid) ==
    /\ delete_begin(SeqWorkflow, oid)
    /\ before' =
         IF /\ wf[SeqWorkflow].op = "create"
            /\ wf[SeqWorkflow].result = "ok"
            /\ wf[SeqWorkflow].order_id = oid
         THEN [NoBefore EXCEPT !.stock = before.stock, !.created = oid,
                               !.lines = LinesOf(oid)]
         ELSE [NoBefore EXCEPT !.stock = stock, !.lines = LinesOf(oid)]

NextSeq ==
    \/ \E r \in SequentialRequests : seq_create_order(r)
    \/ \E oid \in OrderIds, r \in SequentialRequests : seq_update_order(oid, r)
    \/ \E oid \in OrderIds : seq_delete_order(oid)
    \/ c_setnx(SeqWorkflow) \/ c_expire(SeqWorkflow) \/ c_check(SeqWorkflow)
    \/ c_commit_order(SeqWorkflow) \/ c_refresh(SeqWorkflow) \/ c_apply(SeqWorkflow)
    \/ c_reload(SeqWorkflow) \/ c_index(SeqWorkflow)
    \/ u_setnx(SeqWorkflow) \/ u_expire(SeqWorkflow) \/ u_check(SeqWorkflow)
    \/ u_apply(SeqWorkflow) \/ u_reload(SeqWorkflow) \/ u_index(SeqWorkflow)
    \/ d_setnx(SeqWorkflow) \/ d_expire(SeqWorkflow) \/ d_restock(SeqWorkflow)
    \/ d_commit(SeqWorkflow) \/ d_unindex(SeqWorkflow)
    \/ \E p \in ProductIds : KeyExpires(p)

SpecSeq == Init /\ [][NextSeq]_vars

-----------------------------------------------------------------------------
(* Properties *)

AllFinished == \A w \in Workflows : Free(w)

\* no handler met a failure of the database itself
NoDbError == \A w \in Workflows : wf[w].result # "DbError"

\* stock plus the quantities of the persisted lines is what was provisioned
Conservation ==
    \A p \in Products : stock[p] + QtyOf(order_products, p) = provisioned[p]

\* the projection holds exactly the documents of the orders of the ledger
\* (the documents' lines compared as per-product quantities, in any order)
SameDocument(doc, oid) ==
    /\ doc.name = orders[oid].name
    /\ doc.description = orders[oid].description
    /\ doc.total_amount = orders[oid].total_amount
    /\ Len(doc.products) = Len(LinesOf(oid))
    /\ \A p \in Products : QtyOf(doc.products, p) = QtyOf(LinesOf(oid), p)

Converged ==
    /\ DOMAIN index = DOMAIN orders
    /\ \A id \in DOMAIN orders : SameDocument(index[id], id)

\* C1: whatever the interleaving of the create, update and delete workflows,
\* no product's persisted stock is ever negative.
C1_StockNeverNegative == \A p \in Products : stock[p] >= 0

\* C2: requests run one at a time: after every request, for every product,
\* stock plus the quantities of the persisted lines referencing it equals the
\* provisioned stock, also for requests naming a product in several lines.
C2_SequentialConservation == Free(SeqWorkflow) => Conservation

\* C3: once all concurrent workflows have finished (none of them on a
\* database error), stock plus the quantities of the lines of the live orders
\* equals the provisioned stock, for every product.
C3_ConcurrentConservation == (AllFinished /\ NoDbError) => Conservation

\* C10: once all concurrent workflows have finished (every projection write
\* succeeded, no database error), the projection holds a document for an id
\* exactly if the order exists, and the document equals the ledger's values.
C10_ProjectionConverges == (AllFinished /\ NoDbError) => Converged

\* the lines of request r that name a product of the catalog holding less
\* than the line asks for, given the stocks s
ShortLines(r, s) ==
    {k \in 1..Len(r.products) :
        /\ r.products[k].product_id \in Products
        /\ s[r.products[k].product_id] < r.products[k].quantity}

MissingLines(r) ==
    {k \in 1..Len(r.products) : r.products[k].product_id \notin Products}

Least(S) == CHOOSE k \in S : \A j \in S : k <= j

\* a create request with a line short of stock has returned
ShortCreateDone ==
    /\ wf[SeqWorkflow].op = "create"
    /\ wf[SeqWorkflow].pc = "done"
    /\ ShortLines(before.req, before.stock) # {}

NothingPersisted(w) == ~flags[w].mutated

\* C4 as claimed: a create with a line short of stock aborts with
\* InsufficientStock, whatever the position of the line, and has persisted
\* nothing: no stock change, no order row, no line, no document.
C4_ShortCreateRaisesInsufficientStock ==
    ShortCreateDone =>
        /\ wf[SeqWorkflow].result = "InsufficientStock"
        /\ NothingPersisted(SeqWorkflow)
        /\ stock = before.stock

\* C4 as amended: a create with a line short of stock aborts at the first line
\* that is short of stock or names a product that does not exist, with
\* InsufficientStock or the product-not-found error accordingly, and has
\* persisted nothing: no stock change, no order row, no line, no document.
C4_ShortCreateAbortsWithNothingPersisted ==
    ShortCreateDone =>
        LET short == ShortLines(before.req, before.stock)
            first == Least(short \cup MissingLines(before.req))
        IN  /\ wf[SeqWorkflow].result =
                 IF first \in short THEN "InsufficientStock" ELSE "ProductNotFound"
            /\ wf[SeqWorkflow].i = first
            /\ NothingPersisted(SeqWorkflow)
            /\ stock = before.stock

\* the short line is the second one, after a line that passed the check
C4_Witness ==
    /\ ShortCreateDone
    /\ wf[SeqWorkflow].result = "InsufficientStock"
    /\ wf[SeqWorkflow].i = 2
    /\ ShortLines(before.req, before.stock) = {2}

\* an update of an existing order, both line sets naming each product once
\* and only products of the catalog, has returned
PlainUpdateDone ==
    /\ wf[SeqWorkflow].op = "update"
    /\ wf[SeqWorkflow].pc = "done"
    /\ wf[SeqWorkflow].result # "OrderNotFound"
    /\ NoDuplicates(before.lines)
    /\ NoDuplicates(before.req.products)
    /\ ProductsOf(before.req.products) \subseteq Products

\* C5: a successful update changes every product's stock by exactly
\* old quantity - new quantity (absence is 0), and the update succeeds whenever
\* every product whose quantity grows has stock >= the growth.
C5_UpdateAppliesExactDeltas ==
    PlainUpdateDone =>
        LET old == ProductsMap(before.lines)
            new == ProductsMap(before.req.products)
        IN  /\ wf[SeqWorkflow].result = "ok" =>
                 \A p \in Products :
                    stock[p] = before.stock[p] + Get(old, p) - Get(new, p)
            /\ (\A p \in Products :
                    Get(new, p) > Get(old, p) =>
                        before.stock[p] >= Get(new, p) - Get(old, p))
               => wf[SeqWorkflow].result = "ok"

\* an update of an existing order with its own name, description and lines
\* has returned
SameUpdateDone ==
    /\ wf[SeqWorkflow].op = "update"
    /\ wf[SeqWorkflow].pc = "done"
    /\ wf[SeqWorkflow].result # "OrderNotFound"
    /\ before.req.products = before.lines
    /\ before.req.name = before.row.name
    /\ before.req.description = before.row.description

\* C7: an update of an order with its current name, description and lines
\* succeeds and leaves every stock and the order's total_amount as they were,
\* whatever the stocks (0 included).
C7_SameUpdateChangesNothing ==
    SameUpdateDone =>
        /\ wf[SeqWorkflow].result = "ok"
        /\ stock = before.stock
        /\ orders[wf[SeqWorkflow].order_id].total_amount = before.row.total_amount

\* such an update, of an order with lines on a product whose stock is 0
C7_Witness ==
    /\ SameUpdateDone
    /\ wf[SeqWorkflow].result = "ok"
    /\ \E p \in ProductsOf(before.lines) : before.stock[p] = 0

\* the delete that follows the successful create of the same order has returned
DeleteAfterCreateDone ==
    /\ wf[SeqWorkflow].op = "delete"
    /\ wf[SeqWorkflow].pc = "done"
    /\ wf[SeqWorkflow].result = "ok"
    /\ before.created = wf[SeqWorkflow].order_id

\* C8: deleting an order right after its create succeeded puts every stock
\* back to what it was before the create, and leaves no row and no line of
\* the order.
C8_DeleteReversesCreate ==
    DeleteAfterCreateDone =>
        /\ stock = before.stock
        /\ wf[SeqWorkflow].order_id \notin DOMAIN orders
        /\ LinesOf(wf[SeqWorkflow].order_id) = <<>>

\* such a delete, of an order that had two lines
C8_Witness ==
    /\ DeleteAfterCreateDone
    /\ Len(before.lines) = 2

\* C6: a rejected update (order not found, product not found, insufficient
\* stock) has changed no stock, no line, no column of the order and no
\* document; and while an update validates its changes it has applied none.
C6_RejectedUpdatePersistsNothing ==
    \A w \in Workflows :
        (/\ wf[w].op = "update"
         /\ \/ wf[w].pc \in {"u_setnx", "u_expire", "u_check"}
            \/ wf[w].result \in {"OrderNotFound", "ProductNotFound", "InsufficientStock"})
        => NothingPersisted(w)

\* an update rejected at its second change, the first having passed
C6_Witness ==
    \E w \in Workflows :
        /\ wf[w].op = "update"
        /\ wf[w].result = "InsufficientStock"
        /\ wf[w].i = 2

\* C9: a request that ends on a missing order or a missing product has
\* persisted nothing; one that ends on a missing order has claimed no lock key.
C9_NotFoundPersistsNothing ==
    \A w \in Workflows :
        /\ wf[w].result \in {"OrderNotFound", "ProductNotFound"} => NothingPersisted(w)
        /\ wf[w].result = "OrderNotFound" => ~flags[w].claimed

\* a create that met the missing product in its second line, and another
\* request that met a missing order
C9_Witness ==
    /\ \E w \in Workflows :
        /\ wf[w].op = "create"
        /\ wf[w].result = "ProductNotFound"
        /\ wf[w].i = 2
    /\ \E w \in Workflows : wf[w].result = "OrderNotFound"

\* every order row's total_amount is the sum, over the order's lines, of
\* product.price * quantity
TotalsMatchLines ==
    \A id \in DOMAIN orders : orders[id].total_amount = Amount(LinesOf(id))

\* C11: after every successful create and update (all requests finished, none
\* on a database error), the persisted total_amount of every order equals the
\* sum of price * quantity over the order's persisted lines.
C11_TotalAmountMatchesLines == (AllFinished /\ NoDbError) => TotalsMatchLines

-----------------------------------------------------------------------------
(* Sequential requests whose lines may ask for quantity 0: schemas.py puts no
   constraint on OrderProductBase.quantity *)

ZeroRequests ==
    {[name |-> t.name, description |-> t.description, products |-> ls] :
        t \in Texts,
        ls \in UNION {[1..k -> [product_id : Products, quantity : {0, 1}]] :
                        k \in 0..MaxLines}}

NextZero ==
    \/ \E r \in ZeroRequests : seq_create_order(r)
    \/ \E oid \in OrderIds, r \in ZeroRequests : seq_update_order(oid, r)
    \/ \E oid \in OrderIds : seq_delete_order(oid)
    \/ c_setnx(SeqWorkflow) \/ c_expire(SeqWorkflow) \/ c_check(SeqWorkflow)
    \/ c_commit_order(SeqWorkflow) \/ c_refresh(SeqWorkflow) \/ c_apply(SeqWorkflow)
    \/ c_reload(SeqWorkflow) \/ c_index(SeqWorkflow)
    \/ u_setnx(SeqWorkflow) \/ u_expire(SeqWorkflow) \/ u_check(SeqWorkflow)
    \/ u_apply(SeqWorkflow) \/ u_reload(SeqWorkflow) \/ u_index(SeqWorkflow)
    \/ d_setnx(SeqWorkflow) \/ d_expire(SeqWorkflow) \/ d_restock(SeqWorkflow)
    \/ d_commit(SeqWorkflow) \/ d_unindex(SeqWorkflow)
    \/ \E p \in ProductIds : KeyExpires(p)

SpecZero == Init /\ [][NextZero]_vars

\* C12: after every request, every persisted order line has quantity > 0: a
\* requested quantity of 0 never results in a persisted line of quantity 0.
C12_PersistedQuantitiesPositive ==
    Free(SeqWorkflow) => \A k \in 1..Len(order_products) : order_products[k].quantity > 0

-----------------------------------------------------------------------------

\* handler w, running create, has checked the stock of the products of
\* product_updates and has not yet committed their decrement
CheckedNotDecremented(w) ==
    /\ wf[w].op = "create"
    /\ wf[w].pc \in {"c_setnx", "c_expire", "c_check", "c_commit_order",
                      "c_refresh", "c_apply"}

\* C13: in create, from the stock check of a product until its decrement is
\* committed, the handler holds the product's lock (its redis key, or at least
\* the product row read FOR UPDATE) without interruption.
C13_LockHeldFromCheckToDecrement ==
    \A w \in Workflows :
        CheckedNotDecremented(w) =>
            \A p \in ProductsOf(wf[w].product_updates) :
                p \in flags[w].holds \/ rowlock[p] = w

-----------------------------------------------------------------------------
(* Concurrent POST requests whose handler may stop at any statement *)

\* the process running handler w dies: its connection is lost, so the database
\* rolls its transaction back; its redis key stays as it is (line 41's comment:
\* "Set expiration in case of crash")
crash(w) ==
    /\ ~Free(w)
    /\ wf[w].pc # "crashed"
    /\ wf' = [wf EXCEPT ![w] = [Idle EXCEPT !.op = wf[w].op, !.pc = "crashed",
                                            !.order_id = wf[w].order_id]]
    /\ rowlock' = ReleaseRows(w)
    /\ UNCHANGED <<stock, orders, order_products, next_id, redis, index, started,
                   provisioned, before>>
    /\ Track(w)

\* the statements of crud_create_order, run by handler w
create_steps(w) ==
    \/ c_setnx(w) \/ c_expire(w) \/ c_check(w) \/ c_commit_order(w)
    \/ c_refresh(w) \/ c_apply(w) \/ c_reload(w) \/ c_index(w)

NextCrash ==
    \/ \E w \in Workflows, r \in ConcurrentRequests : create_order(w, r)
    \/ \E w \in Workflows : create_steps(w)
    \/ \E w \in Workflows : db_wait_fails(w) \/ db_commit_fails(w)
    \/ \E w \in Workflows : crash(w)
    \/ \E p \in ProductIds : KeyExpires(p)

\* a handler that has not crashed keeps running; a TTL that has run out removes
\* its key
FairCrash ==
    /\ \A w \in Workflows : WF_vars(create_steps(w))
    /\ \A p \in ProductIds : WF_vars(KeyExpires(p))

SpecCrash == Init /\ [][NextCrash]_vars /\ FairCrash

\* no handler is running: each has returned, raised or crashed
Quiet == \A w \in Workflows : Free(w) \/ wf[w].pc = "crashed"

\* C14: create is atomic in the ledger: in the state a create leaves behind,
\* also when it failed or crashed after validation, no order row exists
\* without all of its lines (the lines its total_amount was computed from).
C14_CreateAtomicInLedger == Quiet => TotalsMatchLines

\* C17: if a handler crashes after its setnx set a product's key and before
\* its own delete of the key, the key is eventually removed.
C17_CrashedHoldersKeyIsRemoved ==
    \A w \in Workflows : \A p \in ProductIds :
        (wf[w].pc = "crashed" /\ p \in flags[w].holds) ~> (redis[p] = "absent")

-----------------------------------------------------------------------------

\* C15: an update is rejected with InsufficientStock only when, for some
\* product, the quantity grows by more than the product's stock; an update that
\* only removes lines or lowers quantities is never rejected for stock.
C15_RejectedOnlyForConsumeDeltas ==
    (PlainUpdateDone /\ wf[SeqWorkflow].result = "InsufficientStock") =>
        LET old == ProductsMap(before.lines)
            new == ProductsMap(before.req.products)
        IN  \E p \in Products :
                /\ Get(new, p) > Get(old, p)
                /\ before.stock[p] < Get(new, p) - Get(old, p)

-----------------------------------------------------------------------------

\* the handlers that are between their own successful setnx of product p's key
\* and their own delete of it
Holders(p) == {w \in Workflows : p \in flags[w].holds}

\* C16: per product, at most one handler at a time is between its own
\* successful claim of lock_product_<p> and its own release of it.
C16_MutualExclusion == \A p \in ProductIds : Cardinality(Holders(p)) <= 1

\* C20: a handler holds at most one product key at any time, and once it has
\* returned or raised (product not found, insufficient stock, an error of the
\* database inside the try block) it holds none.
C20_KeysReleasedOnEveryExit ==
    \A w \in Workflows :
        /\ Cardinality(flags[w].holds) <= 1
        /\ Free(w) => flags[w].holds = {}

\* one handler raised on a missing product whose key it had set, another on a
\* database error inside the try block of create, before any commit
C20_Witness ==
    /\ \E w \in Workflows :
          wf[w].result \in {"ProductNotFound", "InsufficientStock"} /\ flags[w].claimed
    /\ \E w \in Workflows :
          /\ wf[w].op = "create" /\ wf[w].result = "DbError" /\ wf[w].order_id = 0
          /\ flags[w].claimed

-----------------------------------------------------------------------------

\* handler w is at the SELECT ... FOR UPDATE of its loop, on a product row
\* that handler v holds
WaitsFor(w, v) == InTry(w) /\ LoopProduct(w) \in Products /\ rowlock[LoopProduct(w)] = v

\* w and v each wait for a product row the other holds
CircularWait(w, v) == w # v /\ WaitsFor(w, v) /\ WaitsFor(v, w)

\* C18: deadlock hazard: when two handlers that lock the same two products in
\* opposite order each wait for the product the other holds, neither can run
\* its next statement (such a state is reachable: C18_Witness).
C18_CircularWaitBlocksBoth ==
    \A w, v \in Workflows :
        CircularWait(w, v) =>
            ~ENABLED (c_check(w) \/ u_check(w) \/ d_restock(w))

\* two handlers, each at its second product, each waiting for the other's first
C18_Witness ==
    \E w, v \in Workflows :
        /\ CircularWait(w, v)
        /\ wf[w].i = 2 /\ wf[v].i = 2
        /\ LoopProduct(w) # LoopProduct(v)

-----------------------------------------------------------------------------
(* Sequential requests with a search index that may fail *)

\* (mutation: on a failed projection write the handler removes the order again)
index_fails_undoes(w) ==
    /\ wf[w].pc \in {"c_index", "u_index", "d_unindex"}
    /\ wf' = [wf EXCEPT ![w] = Done(wf[w].op, "ProjectionError", wf[w].order_id)]
    /\ orders' = [id \in DOMAIN orders \ {wf[w].order_id} |-> orders[id]]
    /\ order_products' = SelectSeq(order_products, LAMBDA x : x.order_id # wf[w].order_id)
    /\ UNCHANGED <<stock, next_id, rowlock, redis, index, started, provisioned, before>>
    /\ Track(w)

\* add_documents (line 296) or delete_document (line 186) raises: the
\* exception leaves the handler; the commit before it (lines 65, 147, 183)
\* stands, the session is closed with nothing pending
index_fails(w) ==
    /\ wf[w].pc \in {"c_index", "u_index", "d_unindex"}
    /\ wf' = [wf EXCEPT ![w] = Done(wf[w].op, "ProjectionError", wf[w].order_id)]
    /\ UNCHANGED <<stock, orders, order_products, next_id, rowlock, redis, index,
                   started, provisioned, before>>
    /\ Track(w)

NextProj == NextSeq \/ index_fails(SeqWorkflow)

SpecProj == Init /\ [][NextProj]_vars

\* a request whose projection write failed has returned
ProjectionFailed(op) ==
    /\ wf[SeqWorkflow].pc = "done"
    /\ wf[SeqWorkflow].op = op
    /\ wf[SeqWorkflow].result = "ProjectionError"

\* the order row of the running request holds the request's values
RowAsRequested ==
    LET oid == wf[SeqWorkflow].order_id
    IN  /\ oid \in DOMAIN orders
        /\ orders[oid] = [name |-> before.req.name,
                          description |-> before.req.description,
                          total_amount |-> Amount(before.req.products)]
        /\ LinesOf(oid) = before.req.products

\* C19: a projection write that fails after the ledger commit leaves the
\* ledger as that operation committed it: the order row, its lines and every
\* stock keep the committed values (after a delete: no row, no line, the
\* quantities back in stock); nothing is rolled back.
C19_ProjectionFailureKeepsLedger ==
    /\ ProjectionFailed("create") =>
          /\ RowAsRequested
          /\ \A p \in Products :
                stock[p] = before.stock[p] - QtyOf(before.req.products, p)
    /\ ProjectionFailed("update") =>
          /\ RowAsRequested
          /\ \A p \in Products :
                stock[p] = before.stock[p] + Get(ProductsMap(before.lines), p)
                                           - Get(ProductsMap(before.req.products), p)
    /\ ProjectionFailed("delete") =>
          /\ wf[SeqWorkflow].order_id \notin DOMAIN orders
          /\ LinesOf(wf[SeqWorkflow].order_id) = <<>>
          /\ \A p \in Products :
                stock[p] = IF before.created = wf[SeqWorkflow].order_id
                           THEN before.stock[p]
                           ELSE before.stock[p] + QtyOf(before.lines, p)

\* the projection write of an update that changed the lines of an order failed
C19_Witness ==
    /\ ProjectionFailed("update")
    /\ before.lines # <<>>
    /\ before.req.products # before.lines
    /\ before.req.products # <<>>

====
